---- MODULE Spec2Model ----
(***************************************************************************)
(* Model of the database utilities of seo-domain-checker:                  *)
(*   src/db/db.py    the per-thread connection manager and the write helper *)
(*   src/init_db.py  the schema bootstrapper run at container start         *)
(*                                                                         *)
(* Strings that the code takes apart (connection URLs) are sequences of    *)
(* tokens, so that split/replace/startswith are computed as the code       *)
(* computes them.  A connection handle is its index in conns.              *)
(*                                                                         *)
(* Specifications:                                                         *)
(*   Spec        db.py, each call one step, in the default environment     *)
(*   ThreadSpec  db.py after initialization, persist_domain_categories     *)
(*               interleaved statement by statement                        *)
(*   ConfSpec    both programs resolving their configuration from one of   *)
(*               several environments                                      *)
(*   BootSpec    init_db.py run by concurrent processes                    *)
(***************************************************************************)
EXTENDS Integers, Sequences, FiniteSets, TLC

\* ---------------------------------------------------------------- bounds
\* the number of connection handles a behaviour may open
MaxConns == 2

\* ------------------------------------------------------------- constants
\* Python's None where a connection handle is expected; handles are 1, 2, ...
None == 0
SQLITE == "sqlite"
POSTGRESQL == "postgresql"
DatabaseType == {SQLITE, POSTGRESQL}

Threads == {"T1", "T2"}

\* inputs of init_database(db_url): token sequences; NoUrl is a call without
\* the argument
NoUrl == << >>
SqliteUrl == <<"sqlite:///", "/app", "/", "ahrefs_data.db">>
PgUrl == <<"postgresql://", "app", ":", "secret", "@", "dbhost", ":", "6543", "/", "seo">>
PgUrlNoCreds == <<"postgresql://", "dbhost", ":", "6543", "/", "seo">>
DbUrls == {NoUrl, SqliteUrl, PgUrl, PgUrlNoCreds}

\* the port of a URL that names none (db.py:87)
DefaultPort == 5432

\* ---- the process environment
\* an environment variable that is not set
Unset == << >>

\* os.environ and the working directory of a process in which no variable of
\* the configuration is set
NoEnv ==
  [DATABASE_URL |-> Unset, SQLITE_DB_PATH |-> Unset,
   POSTGRES_HOST |-> Unset, DB_HOST |-> Unset, POSTGRES_PORT |-> Unset, DB_PORT |-> Unset,
   POSTGRES_DB |-> Unset, DB_NAME |-> Unset, POSTGRES_USER |-> Unset, DB_USER |-> Unset,
   POSTGRES_PASSWORD |-> Unset, DB_PASSWORD |-> Unset, cwd |-> <<"/app">>]

\* the individual host, port, database, user and password variables, set
HostVars ==
  [NoEnv EXCEPT !.POSTGRES_HOST = <<"pghost">>, !.DB_HOST = <<"oldhost">>,
                !.DB_PORT = <<"7000">>, !.POSTGRES_DB = <<"checker">>,
                !.DB_USER = <<"svc">>, !.POSTGRES_PASSWORD = <<"pw">>]

\* the environments a process is started in
Environs ==
  { NoEnv,
    HostVars,
    [HostVars EXCEPT !.DATABASE_URL = PgUrl],
    [HostVars EXCEPT !.DATABASE_URL = PgUrlNoCreds],
    [NoEnv EXCEPT !.DATABASE_URL = PgUrl],
    [NoEnv EXCEPT !.DATABASE_URL = <<"sqlite:///", "/data/seo.db">>],
    [NoEnv EXCEPT !.SQLITE_DB_PATH = <<"/data/seo.db">>],
    [NoEnv EXCEPT !.cwd = <<"/srv">>] }

\* rows of batch_analysis present in a database, keyed by (target_id, domain)
NULL == "NULL"
ExistingRows == {<<"target-1", "example.com">>, <<"target-1", "foo.com">>,
                 <<"target-2", "example.com">>}
\* a row no statement of the open transaction has written
Untouched == "untouched"
NoPending == [r \in ExistingRows |-> Untouched]

\* inputs of persist_domain_categories: target_id and the mapping, in the
\* order the dictionary yields its items
TargetIds == {"target-1"}
DomainCategories == {
  << <<"example.com", "blog">> >>,
  << <<"example.com", "news">>, <<"foo.com", "blog">> >> }

\* ---- init_db.py
\* the most runs of the bootstrap script one process makes
MaxRuns == 2

Procs == {"P1", "P2"}

\* the schema definition file (/app/ddl/001-initial-schema.sql): a pragma and
\* one CREATE TABLE statement per table, each statement a token sequence
Pragma == <<"PRAGMA foreign_keys = ON;">>
CreateAnalysis == <<"CREATE TABLE", "analysis", "INTEGER", "REAL", "TIMESTAMP DEFAULT CURRENT_TIMESTAMP">>
CreateBatchAnalysis == <<"CREATE TABLE", "batch_analysis", "INTEGER", "TEXT">>
SchemaFiles == { <<Pragma, CreateAnalysis, CreateBatchAnalysis>>,
                 <<Pragma, CreateBatchAnalysis, CreateAnalysis>> }

VARIABLES
  POSTGRES_AVAILABLE,   \* db.py:11-16, whether psycopg2 could be imported
  _db_initialized,      \* db.py:46
  _db_type,             \* db.py:47
  _connection_params,   \* db.py:48
  _thread_local,        \* db.py:45, the conn attribute seen by each thread
  conns,                \* every connection object created so far
  batch_analysis,       \* committed domain_category per database kind and row
  last,                 \* the last call made: who, what, and how it ended
  \* ---- init_db.py
  DB_TYPE,              \* init_db.py:11 and db.py:31, the environment's backend selector
  schema_file,          \* the content of SCHEMA_PATH, or NoFile
  tables,               \* the tables of the target database
  pc,                   \* per bootstrap process: where its run stands
  stmt,                 \* per process: the statement executescript runs next
  made,                 \* per process: the tables its current run created
  success,              \* per process: what init_database() returned
  exit_code,            \* per process: what sys.exit was given
  outcome,              \* per process: how its last run ended
  table_count,          \* per process: the count its last run reported
  runs,                 \* per process: runs started
  boot_conn,            \* per process: what its run connected to
  environ,              \* os.environ and the working directory of the process
  calls                 \* per thread: the persist_domain_categories call it is in

dbvars == <<POSTGRES_AVAILABLE, _db_initialized, _db_type, _connection_params,
            _thread_local, conns, batch_analysis, last>>

bootvars == <<DB_TYPE, schema_file, tables, pc, stmt, made, success, exit_code,
              outcome, table_count, runs, boot_conn>>

vars == <<dbvars, bootvars, environ, calls>>

\* ------------------------------------------ module configuration of db.py
\* os.environ.get(name, default)
Getenv(name, default) == IF environ[name] # Unset THEN environ[name] ELSE default

\* os.environ.get(first) or os.environ.get(second, default)
GetenvOr(first, second, default) ==
  IF environ[first] # Unset THEN environ[first] ELSE Getenv(second, default)

DB_HOST == GetenvOr("POSTGRES_HOST", "DB_HOST", <<"localhost">>)
DB_PORT == GetenvOr("POSTGRES_PORT", "DB_PORT", <<"5432">>)
DB_NAME == GetenvOr("POSTGRES_DB", "DB_NAME", <<"seo_checker">>)
DB_USER == GetenvOr("POSTGRES_USER", "DB_USER", <<"postgres">>)
DB_PASSWORD == GetenvOr("POSTGRES_PASSWORD", "DB_PASSWORD", <<"password">>)
DATABASE_URL == environ.DATABASE_URL
\* os.path.join(project_root, "ahrefs_data.db") unless SQLITE_DB_PATH is set
SQLITE_DB_PATH == Getenv("SQLITE_DB_PATH", environ.cwd \o <<"/", "ahrefs_data.db">>)

\* ------------------------------------------------------- string helpers
\* str.split(sep) on a token sequence
RECURSIVE Split(_, _)
Split(s, sep) ==
  IF \A i \in 1..Len(s) : s[i] # sep
  THEN <<s>>
  ELSE LET i == CHOOSE k \in 1..Len(s) : s[k] = sep /\ \A j \in 1..(k-1) : s[j] # sep
       IN  <<SubSeq(s, 1, i-1)>> \o Split(SubSeq(s, i+1, Len(s)), sep)

\* str.replace(tok, "")
Remove(s, tok) == SelectSeq(s, LAMBDA x : x # tok)

\* db_url.startswith("postgresql")
StartsWithPostgresql(url) == Len(url) > 0 /\ url[1] \in {"postgresql://", "postgresql+psycopg2://"}

\* int() of a port token; the URLs of DbUrls carry decimal ports
ToInt(tok) ==
  CASE tok = <<"6543">> -> 6543
    [] tok = <<"5432">> -> 5432
    [] tok = <<"7000">> -> 7000
    [] OTHER -> -1

\* ------------------------------------------------------- init_database
\* the dictionary built at db.py:85-91 from a URL with exactly one "@"
ParsePgParams(db_url) ==
  LET parts == Split(Remove(db_url, "postgresql://"), "@")
      user_pass == Split(parts[1], ":")
      host_port_db == Split(parts[2], "/")
      host_port == Split(host_port_db[1], ":")
  IN  [host |-> host_port[1],
       port |-> IF Len(host_port) > 1 THEN ToInt(host_port[2]) ELSE DefaultPort,
       database |-> IF Len(host_port_db) > 1 THEN host_port_db[2] ELSE DB_NAME,
       user |-> IF Len(user_pass) > 0 THEN user_pass[1] ELSE DB_USER,
       password |-> IF Len(user_pass) > 1 THEN user_pass[2] ELSE DB_PASSWORD]

\* what a call leaves in last
\* n: the updates persist_domain_categories executed without error
Call(t, op, out, val, n) == [thread |-> t, op |-> op, out |-> out, val |-> val, n |-> n]

\* get_database_url(), db.py:51-59
get_database_url ==
  IF DATABASE_URL # << >> THEN DATABASE_URL
  ELSE IF DB_TYPE = "postgresql"
  THEN <<"postgresql://">> \o DB_USER \o <<":">> \o DB_PASSWORD \o <<"@">>
         \o DB_HOST \o <<":">> \o DB_PORT \o <<"/">> \o DB_NAME
  ELSE <<"sqlite:///">> \o SQLITE_DB_PATH

\* the URL init_database works with (db.py:66-67)
ResolvedUrl(db_url) == IF db_url = << >> THEN get_database_url ELSE db_url

\* a migration run whose exception leaves init_database
RunMigrations_propagates(alembic_ok) == IF alembic_ok THEN "completed" ELSE "raised"

\* the try block around the Alembic run (db.py:97-104): an exception of the
\* migration runner is caught and logged
RunMigrations(alembic_ok) == IF alembic_ok THEN "completed" ELSE "caught"

\* db.py:96-107 after the migration run ended as migrations: the flag is set
\* unless an exception left the function
FinishInit(migrations) ==
  IF migrations = "raised"
  THEN /\ UNCHANGED _db_initialized
       /\ last' = Call("main", "init_database", "Exception: migration", None, 0)
  ELSE /\ _db_initialized' = TRUE
       /\ last' = Call("main", "init_database",
                       IF migrations = "completed" THEN "ok" ELSE "ok: migrations failed",
                       None, 0)

\* the state init_database(url, ...) leaves behind, url being resolved
InitializeFrom(db_url, alembic_ok) ==
  IF StartsWithPostgresql(db_url)
  THEN /\ _db_type' = POSTGRESQL
       /\ IF ~POSTGRES_AVAILABLE
          THEN \* RuntimeError raised at db.py:75, after _db_type was assigned
               /\ UNCHANGED <<_db_initialized, _connection_params>>
               /\ last' = Call("main", "init_database", "RuntimeError: PostgreSQL support not available", None, 0)
          ELSE /\ _connection_params' =
                    IF Len(Split(Remove(db_url, "postgresql://"), "@")) = 2
                    THEN ParsePgParams(db_url)
                    ELSE _connection_params
               /\ FinishInit(RunMigrations(alembic_ok))
  ELSE /\ _db_type' = SQLITE
       /\ _connection_params' = [database |-> Remove(db_url, "sqlite:///")]
       /\ FinishInit(RunMigrations(alembic_ok))

\* init_database(db_url, alembic_ini_path), called by the main thread at
\* startup; alembic_ok is whether the migration run at db.py:97-104 succeeds
init_database(db_url, alembic_ok) ==
  /\ UNCHANGED <<bootvars, environ, calls>>
  /\ UNCHANGED <<POSTGRES_AVAILABLE, _thread_local, conns, batch_analysis>>
  /\ InitializeFrom(ResolvedUrl(db_url), alembic_ok)

\* ------------------------------------------------- connection objects
\* sqlite3.connect(...) and the row factory, without the pragma of db.py:126:
\* SQLite leaves foreign-key enforcement off on a new connection
sqlite3_connect_no_pragma(t) ==
  [kind |-> SQLITE, open |-> TRUE, owner |-> t, row_factory |-> "sqlite3.Row",
   foreign_keys |-> FALSE, autocommit |-> FALSE, pending |-> NoPending]

\* sqlite3.connect(...) followed by db.py:125-126, made by thread t; opening
\* the file or the server connection is taken to succeed
sqlite3_connect(t) ==
  [kind |-> SQLITE, open |-> TRUE, owner |-> t, row_factory |-> "sqlite3.Row",
   foreign_keys |-> TRUE, autocommit |-> FALSE, pending |-> NoPending]

\* psycopg2.connect(**_connection_params) followed by db.py:120, made by thread t
psycopg2_connect(t) ==
  [kind |-> POSTGRESQL, open |-> TRUE, owner |-> t, row_factory |-> "tuple",
   foreign_keys |-> TRUE, autocommit |-> FALSE, pending |-> NoPending]

\* conn.close(): the open transaction is discarded
Close(c) == [c EXCEPT !.open = FALSE, !.pending = NoPending]

\* a connection kept in one module-level variable instead of a thread-local
getattr_conn_global(t) ==
  IF \E u \in Threads : _thread_local[u] # None
  THEN _thread_local[CHOOSE u \in Threads : _thread_local[u] # None]
  ELSE None

\* getattr(_thread_local, "conn", None) as thread t sees it (db.py:115, 143)
getattr_conn(t) == _thread_local[t]

\* a connection kept in one attribute shared by all threads
setattr_conn_global(t, value) == [u \in Threads |-> value]

\* an assignment that forgets to clear the entry
setattr_conn_keeps(t, value) ==
  IF value = None THEN _thread_local ELSE [_thread_local EXCEPT ![t] = value]

\* _thread_local.conn = value, assigned by thread t (db.py:128, 146)
setattr_conn(t, value) == [_thread_local EXCEPT ![t] = value]

\* the thread is not inside a call of persist_domain_categories
Idle == [pc |-> "idle"]

\* ------------------------------------------------ get_thread_connection
get_thread_connection(t) ==
  /\ UNCHANGED <<bootvars, environ, calls>>
  /\ calls[t] = Idle
  /\ UNCHANGED <<POSTGRES_AVAILABLE, _db_initialized, _db_type, _connection_params,
                 batch_analysis>>
  /\ IF ~_db_initialized
     THEN /\ last' = Call(t, "get_thread_connection", "RuntimeError: Database not initialized", None, 0)
          /\ UNCHANGED <<_thread_local, conns>>
     ELSE IF getattr_conn(t) # None
     THEN /\ last' = Call(t, "get_thread_connection", "ok", getattr_conn(t), 0)
          /\ UNCHANGED <<_thread_local, conns>>
     ELSE IF _db_type = POSTGRESQL /\ ~POSTGRES_AVAILABLE
     THEN \* the name psycopg2 was never bound (db.py:11-16)
          /\ last' = Call(t, "get_thread_connection", "NameError", None, 0)
          /\ UNCHANGED <<_thread_local, conns>>
     ELSE IF _db_type = POSTGRESQL /\ _connection_params = << >>
     THEN \* psycopg2.connect() without a dsn or keyword
          /\ last' = Call(t, "get_thread_connection", "TypeError", None, 0)
          /\ UNCHANGED <<_thread_local, conns>>
     ELSE IF _db_type = SQLITE /\ "database" \notin DOMAIN _connection_params
     THEN /\ last' = Call(t, "get_thread_connection", "KeyError", None, 0)
          /\ UNCHANGED <<_thread_local, conns>>
     ELSE /\ Len(conns) < MaxConns
          /\ conns' = Append(conns, IF _db_type = POSTGRESQL THEN psycopg2_connect(t)
                                                          ELSE sqlite3_connect(t))
          /\ _thread_local' = setattr_conn(t, Len(conns) + 1)
          /\ last' = Call(t, "get_thread_connection", "ok", Len(conns) + 1, 0)

\* ---------------------------------------------- close_thread_connection
close_thread_connection(t) ==
  /\ UNCHANGED <<bootvars, environ, calls>>
  /\ calls[t] = Idle
  /\ UNCHANGED <<POSTGRES_AVAILABLE, _db_initialized, _db_type, _connection_params,
                 batch_analysis>>
  /\ last' = Call(t, "close_thread_connection", "ok", None, 0)
  /\ IF getattr_conn(t) # None
     THEN /\ conns' = [conns EXCEPT ![getattr_conn(t)] = Close(@)]
          /\ _thread_local' = setattr_conn(t, None)
     ELSE UNCHANGED <<_thread_local, conns>>

\* ----------------------------------------------------------- get_cursor
\* "ok", or the exception conn.cursor(...) raises
get_cursor(conn) ==
  IF _db_type = POSTGRESQL
  THEN IF ~POSTGRES_AVAILABLE THEN "NameError"
       ELSE IF conn.kind = SQLITE THEN "TypeError"  \* sqlite3 has no cursor_factory keyword
       ELSE IF ~conn.open THEN "InterfaceError"
       ELSE "ok"
  ELSE IF ~conn.open
       THEN (IF conn.kind = SQLITE THEN "ProgrammingError" ELSE "InterfaceError")
       ELSE "ok"

\* ------------------------------------------- persist_domain_categories
\* UPDATE batch_analysis SET domain_category = category
\*   WHERE target_id = target_id AND domain = domain, inside the open transaction
ExecuteUpdate(pending, target_id, domain, category) ==
  [r \in ExistingRows |-> IF r = <<target_id, domain>> THEN category ELSE pending[r]]

\* the first n items of the mapping, executed in order (db.py:153-168)
RECURSIVE ExecuteUpdates(_, _, _, _)
ExecuteUpdates(pending, target_id, domain_categories, n) ==
  IF n = 0 THEN pending
  ELSE ExecuteUpdate(ExecuteUpdates(pending, target_id, domain_categories, n - 1),
                     target_id, domain_categories[n][1], domain_categories[n][2])

\* conn.commit(): the open transaction becomes the table's content
Commit(table, pending) ==
  [r \in ExistingRows |-> IF pending[r] # Untouched THEN pending[r] ELSE table[r]]

\* a rollback that keeps what the transaction wrote
Rollback_keeps(table, pending) == Commit(table, pending)

\* conn.rollback(): the open transaction is dropped, the table is as it was
Rollback(table, pending) == table

\* whether cur.execute of the i-th item raises: the injected failure, or a
\* query whose placeholders are not those of the connection's driver
ExecuteRaises(conn, i, failAt) == i = failAt \/ conn.kind # _db_type

\* the number of items executed without error before the try block ends
Executed(conn, domain_categories, failAt) ==
  IF get_cursor(conn) # "ok" THEN 0
  ELSE IF \E i \in 1..Len(domain_categories) : ExecuteRaises(conn, i, failAt)
       THEN (CHOOSE i \in 1..Len(domain_categories) :
               /\ ExecuteRaises(conn, i, failAt)
               /\ \A j \in 1..(i-1) : ~ExecuteRaises(conn, j, failAt)) - 1
       ELSE Len(domain_categories)

\* whether the try block (db.py:151-170) ends normally
TrySucceeds(conn, domain_categories, failAt) ==
  /\ get_cursor(conn) = "ok"
  /\ \A i \in 1..Len(domain_categories) : ~ExecuteRaises(conn, i, failAt)
  /\ failAt # Len(domain_categories) + 1

\* a finally clause that closes whatever the backend
FinallyClose_always(conn) == Close(conn)

\* the finally clause (db.py:174-176)
FinallyClose(conn) == IF _db_type = SQLITE THEN Close(conn) ELSE conn

\* how the call ends: "ok", "raised" (the error of the try block re-raised)
\* or "raised by rollback" (conn.rollback() itself raised, db.py:172)
PersistOutcome(conn, domain_categories, failAt) ==
  IF TrySucceeds(conn, domain_categories, failAt) THEN "ok"
  ELSE IF conn.open THEN "raised" ELSE "raised by rollback"

\* the committed table of the connection's database after the call
PersistTable(conn, table, target_id, domain_categories, failAt) ==
  LET pending == ExecuteUpdates(conn.pending, target_id, domain_categories,
                                Executed(conn, domain_categories, failAt))
  IN  IF TrySucceeds(conn, domain_categories, failAt)
      THEN Commit(table, pending)
      ELSE IF conn.open THEN Rollback(table, pending) ELSE table

\* thread t passes its connection; failAt = 0: nothing fails, 1..n: the
\* failAt-th update raises, n+1: conn.commit() raises
persist_domain_categories(t, target_id, domain_categories, failAt) ==
  /\ UNCHANGED <<bootvars, environ, calls>>
  /\ calls[t] = Idle
  /\ _thread_local[t] # None
  /\ LET h == _thread_local[t]
         conn == conns[h]
     IN  /\ batch_analysis' = [batch_analysis EXCEPT ![conn.kind] =
                 PersistTable(conn, @, target_id, domain_categories, failAt)]
         /\ conns' = [conns EXCEPT ![h] = FinallyClose([conn EXCEPT !.pending = NoPending])]
         /\ last' = Call(t, "persist_domain_categories",
                         PersistOutcome(conn, domain_categories, failAt), h,
                         Executed(conn, domain_categories, failAt))
  /\ UNCHANGED <<POSTGRES_AVAILABLE, _db_initialized, _db_type, _connection_params,
                 _thread_local>>

\* ------------------ persist_domain_categories, statement by statement
\* the call of thread t starts: cur = get_cursor(conn), db.py:151-152
persist_begin(t, target_id, domain_categories) ==
  /\ UNCHANGED <<bootvars, environ, dbvars>>
  /\ calls[t] = Idle
  /\ _thread_local[t] # None
  /\ calls' = [calls EXCEPT ![t] =
        [pc |-> IF get_cursor(conns[_thread_local[t]]) = "ok" THEN "loop" ELSE "except",
         target_id |-> target_id, domain_categories |-> domain_categories,
         i |-> 0, h |-> _thread_local[t], out |-> "none"]]

\* one pass of the loop, db.py:153-168: cur.execute of the next item; fails:
\* the statement raises
persist_execute(t, fails) ==
  /\ UNCHANGED <<bootvars, environ>>
  /\ calls[t].pc = "loop"
  /\ calls[t].i < Len(calls[t].domain_categories)
  /\ LET c == calls[t]
         item == c.domain_categories[c.i + 1]
     IN  IF ExecuteRaises(conns[c.h], c.i + 1, IF fails THEN c.i + 1 ELSE 0)
         THEN /\ calls' = [calls EXCEPT ![t].pc = "except"]
              /\ UNCHANGED conns
         ELSE /\ conns' = [conns EXCEPT ![c.h].pending =
                             ExecuteUpdate(@, c.target_id, item[1], item[2])]
              /\ calls' = [calls EXCEPT ![t].i = @ + 1]
  /\ UNCHANGED <<POSTGRES_AVAILABLE, _db_initialized, _db_type, _connection_params,
                 _thread_local, batch_analysis, last>>

\* conn.commit() after the loop, db.py:170; fails: the commit raises
persist_commit(t, fails) ==
  /\ UNCHANGED <<bootvars, environ>>
  /\ calls[t].pc = "loop"
  /\ calls[t].i = Len(calls[t].domain_categories)
  /\ LET c == calls[t]
         conn == conns[c.h]
     IN  IF fails
         THEN /\ calls' = [calls EXCEPT ![t].pc = "except"]
              /\ UNCHANGED <<conns, batch_analysis>>
         ELSE /\ batch_analysis' = [batch_analysis EXCEPT ![conn.kind] = Commit(@, conn.pending)]
              /\ conns' = [conns EXCEPT ![c.h].pending = NoPending]
              /\ calls' = [calls EXCEPT ![t].pc = "finally", ![t].out = "ok"]
  /\ UNCHANGED <<POSTGRES_AVAILABLE, _db_initialized, _db_type, _connection_params,
                 _thread_local, last>>

\* the except clause, db.py:171-173: conn.rollback(), which raises on a
\* closed connection, and the error is raised again
persist_except(t) ==
  /\ UNCHANGED <<bootvars, environ>>
  /\ calls[t].pc = "except"
  /\ LET c == calls[t]
         conn == conns[c.h]
     IN  IF conn.open
         THEN /\ batch_analysis' = [batch_analysis EXCEPT ![conn.kind] = Rollback(@, conn.pending)]
              /\ conns' = [conns EXCEPT ![c.h].pending = NoPending]
              /\ calls' = [calls EXCEPT ![t].pc = "finally", ![t].out = "raised"]
         ELSE /\ UNCHANGED <<batch_analysis, conns>>
              /\ calls' = [calls EXCEPT ![t].pc = "finally", ![t].out = "raised by rollback"]
  /\ UNCHANGED <<POSTGRES_AVAILABLE, _db_initialized, _db_type, _connection_params,
                 _thread_local, last>>

\* the finally clause, db.py:174-176, and the call ends
persist_finally(t) ==
  /\ UNCHANGED <<bootvars, environ>>
  /\ calls[t].pc = "finally"
  /\ conns' = [conns EXCEPT ![calls[t].h] = FinallyClose(@)]
  /\ last' = Call(t, "persist_domain_categories", calls[t].out, calls[t].h, calls[t].i)
  /\ calls' = [calls EXCEPT ![t] = Idle]
  /\ UNCHANGED <<POSTGRES_AVAILABLE, _db_initialized, _db_type, _connection_params,
                 _thread_local, batch_analysis>>

\* ==================================================== init_db.py
SENTINEL == "analysis"

\* the table a CREATE TABLE statement creates; None for any other statement
TableOf(statement) ==
  IF Len(statement) > 1 /\ statement[1] = "CREATE TABLE" THEN statement[2] ELSE "None"

\* init_db.py:127-133 on one statement: the pragma is removed, type names mapped
TranslateStatement(statement) ==
  [i \in 1..Len(Remove(statement, "PRAGMA foreign_keys = ON;")) |->
     LET tok == Remove(statement, "PRAGMA foreign_keys = ON;")[i]
     IN  CASE tok = "INTEGER" -> "INT"
           [] tok = "REAL" -> "NUMERIC"
           [] OTHER -> tok]

\* the script handed to cursor.execute: statements left empty are gone
TranslateSchema(schema_sql) ==
  SelectSeq([i \in 1..Len(schema_sql) |-> TranslateStatement(schema_sql[i])],
            LAMBDA st : st # << >>)

\* a catalog query that asks for a table the schema never creates
SentinelExists_wrong_name == "analyses" \in tables

\* the catalog query for the sentinel table (init_db.py:36-40, 101-109)
SentinelExists == SENTINEL \in tables

\* an entry point that exits 0 whatever init_database() returned
ExitCode_always_zero(ok) == 0

\* sys.exit(0 if success else 1), init_db.py:177-179
ExitCode(ok) == IF ok THEN 0 ELSE 1

\* init_database() returns ok to the entry point, which exits
Finish(p, ok, how) ==
  /\ pc' = [pc EXCEPT ![p] = "done"]
  /\ success' = [success EXCEPT ![p] = ok]
  /\ exit_code' = [exit_code EXCEPT ![p] = ExitCode(ok)]
  /\ outcome' = [outcome EXCEPT ![p] = how]

\* no connection was opened
NoConn == [kind |-> "none"]

\* sqlite3.connect(DB_PATH), init_db.py:26 and 32
boot_sqlite3_connect ==
  [kind |-> SQLITE, database |-> Getenv("SQLITE_DB_PATH", <<"/app", "/", "ahrefs_data.db">>)]

\* psycopg2.connect(host=..., ...), init_db.py:81-96
boot_psycopg2_connect ==
  [kind |-> POSTGRESQL,
   host |-> GetenvOr("POSTGRES_HOST", "DB_HOST", <<"localhost">>),
   port |-> GetenvOr("POSTGRES_PORT", "DB_PORT", <<"5432">>),
   database |-> GetenvOr("POSTGRES_DB", "DB_NAME", <<"seo_checker">>),
   user |-> GetenvOr("POSTGRES_USER", "DB_USER", <<"postgres">>),
   password |-> GetenvOr("POSTGRES_PASSWORD", "DB_PASSWORD", <<"password">>)]

\* a run starts: the connection is opened and the catalog is asked for the
\* sentinel table (init_db.py:32-40)
sqlite_check(p) ==
  /\ UNCHANGED <<dbvars, environ, calls>>
  /\ DB_TYPE # POSTGRESQL
  /\ pc[p] \in {"idle", "done"}
  /\ runs[p] < MaxRuns
  /\ runs' = [runs EXCEPT ![p] = @ + 1]
  /\ made' = [made EXCEPT ![p] = {}]
  /\ stmt' = [stmt EXCEPT ![p] = 0]
  /\ boot_conn' = [boot_conn EXCEPT ![p] = boot_sqlite3_connect]
  /\ IF SentinelExists
     THEN /\ Finish(p, TRUE, "exists")
          /\ UNCHANGED table_count
     ELSE /\ pc' = [pc EXCEPT ![p] = "absent"]
          /\ success' = [success EXCEPT ![p] = FALSE]
          /\ exit_code' = [exit_code EXCEPT ![p] = -1]
          /\ outcome' = [outcome EXCEPT ![p] = "running"]
          /\ UNCHANGED table_count
  /\ UNCHANGED <<DB_TYPE, schema_file, tables>>

\* init_db.py:43-49: the schema file is looked for and read
sqlite_read_schema(p) ==
  /\ UNCHANGED <<dbvars, environ, calls>>
  /\ DB_TYPE # POSTGRESQL
  /\ pc[p] = "absent"
  /\ IF ~schema_file.exists
     THEN /\ Finish(p, FALSE, "no schema file")
          /\ UNCHANGED stmt
     ELSE /\ pc' = [pc EXCEPT ![p] = "executescript"]
          /\ stmt' = [stmt EXCEPT ![p] = 1]
          /\ UNCHANGED <<success, exit_code, outcome>>
  /\ UNCHANGED <<DB_TYPE, schema_file, tables, made, table_count, runs, boot_conn>>

\* init_db.py:51-60: executescript runs the next statement, each in its own
\* transaction; after the last one the tables are counted.  fails: the
\* statement raises for a reason other than an existing table
sqlite_executescript(p, fails) ==
  /\ UNCHANGED <<dbvars, environ, calls>>
  /\ DB_TYPE # POSTGRESQL
  /\ pc[p] = "executescript"
  /\ LET statement == schema_file.sql[stmt[p]]
         created == IF TableOf(statement) = "None" THEN {} ELSE {TableOf(statement)}
     IN  IF fails
         THEN /\ Finish(p, FALSE, "execution error")
              /\ UNCHANGED <<tables, made, stmt, table_count>>
         ELSE IF created \cap tables # {}
         THEN /\ Finish(p, FALSE, "duplicate object")
              /\ UNCHANGED <<tables, made, stmt, table_count>>
         ELSE /\ tables' = tables \cup created
              /\ made' = [made EXCEPT ![p] = @ \cup created]
              /\ IF stmt[p] = Len(schema_file.sql)
                 THEN /\ Finish(p, TRUE, "created")
                      /\ table_count' = [table_count EXCEPT ![p] = Cardinality(tables')]
                      /\ UNCHANGED stmt
                 ELSE /\ stmt' = [stmt EXCEPT ![p] = @ + 1]
                      /\ UNCHANGED <<pc, success, exit_code, outcome, table_count>>
  /\ UNCHANGED <<DB_TYPE, schema_file, runs, boot_conn>>

\* init_db.py:13-19 and 90-111: the driver is imported, the connection opened
\* and the catalog asked for the sentinel table
postgresql_check(p) ==
  /\ UNCHANGED <<dbvars, environ, calls>>
  /\ DB_TYPE = POSTGRESQL
  /\ pc[p] \in {"idle", "done"}
  /\ runs[p] < MaxRuns
  /\ runs' = [runs EXCEPT ![p] = @ + 1]
  /\ made' = [made EXCEPT ![p] = {}]
  /\ stmt' = [stmt EXCEPT ![p] = 0]
  /\ boot_conn' = [boot_conn EXCEPT ![p] =
                    IF POSTGRES_AVAILABLE THEN boot_psycopg2_connect ELSE NoConn]
  /\ IF ~POSTGRES_AVAILABLE
     THEN /\ pc' = [pc EXCEPT ![p] = "done"]
          /\ exit_code' = [exit_code EXCEPT ![p] = 1]
          /\ success' = [success EXCEPT ![p] = FALSE]
          /\ outcome' = [outcome EXCEPT ![p] = "import error"]
     ELSE IF SentinelExists
     THEN Finish(p, TRUE, "exists")
     ELSE /\ pc' = [pc EXCEPT ![p] = "absent"]
          /\ success' = [success EXCEPT ![p] = FALSE]
          /\ exit_code' = [exit_code EXCEPT ![p] = -1]
          /\ outcome' = [outcome EXCEPT ![p] = "running"]
  /\ UNCHANGED <<DB_TYPE, schema_file, tables, table_count>>

\* the first statement of the batch that raises, 0 when none does: failAt is
\* the statement that raises for a reason other than an existing table
RECURSIVE FirstError(_, _, _, _)
FirstError(script, present, failAt, i) ==
  IF i > Len(script) THEN 0
  ELSE IF i = failAt \/ TableOf(script[i]) \in present THEN i
  ELSE FirstError(script, present \cup {TableOf(script[i])}, failAt, i + 1)

\* init_db.py:117-145: the translated script is executed as one batch, which
\* the server runs as one transaction
postgresql_create(p, failAt) ==
  /\ UNCHANGED <<dbvars, environ, calls>>
  /\ DB_TYPE = POSTGRESQL
  /\ pc[p] = "absent"
  /\ IF ~schema_file.exists
     THEN /\ Finish(p, FALSE, "no schema file")
          /\ UNCHANGED <<tables, made, table_count>>
     ELSE LET script == TranslateSchema(schema_file.sql)
              err == FirstError(script, tables, failAt, 1)
              created == {TableOf(script[i]) : i \in 1..Len(script)} \ {"None"}
          IN  /\ failAt \in 0..Len(script)
              /\ IF err # 0
                 THEN /\ Finish(p, FALSE, IF err = failAt THEN "execution error"
                                                         ELSE "duplicate object")
                      /\ UNCHANGED <<tables, made, table_count>>
                 ELSE /\ tables' = tables \cup created
                      /\ made' = [made EXCEPT ![p] = created]
                      /\ table_count' = [table_count EXCEPT ![p] = Cardinality(tables')]
                      /\ Finish(p, TRUE, "created")
  /\ UNCHANGED <<DB_TYPE, schema_file, stmt, runs, boot_conn>>

DbInit ==
  /\ POSTGRES_AVAILABLE \in BOOLEAN
  /\ _db_initialized = FALSE
  /\ _db_type = SQLITE
  /\ _connection_params = << >>
  /\ _thread_local = [t \in Threads |-> None]
  /\ conns = << >>
  /\ batch_analysis = [k \in DatabaseType |-> [r \in ExistingRows |-> NULL]]
  /\ last = Call("none", "none", "none", None, 0)

\* the bootstrap script is not running
BootIdle ==
  /\ DB_TYPE = SQLITE
  /\ schema_file = [exists |-> FALSE, sql |-> << >>]
  /\ tables = {}
  /\ pc = [p \in Procs |-> "idle"]
  /\ stmt = [p \in Procs |-> 0]
  /\ made = [p \in Procs |-> {}]
  /\ success = [p \in Procs |-> FALSE]
  /\ exit_code = [p \in Procs |-> -1]
  /\ outcome = [p \in Procs |-> "none"]
  /\ table_count = [p \in Procs |-> 0]
  /\ runs = [p \in Procs |-> 0]
  /\ boot_conn = [p \in Procs |-> NoConn]

\* db.py is not in use
DbIdle ==
  /\ _db_initialized = FALSE
  /\ _db_type = SQLITE
  /\ _connection_params = << >>
  /\ _thread_local = [t \in Threads |-> None]
  /\ conns = << >>
  /\ batch_analysis = [k \in DatabaseType |-> [r \in ExistingRows |-> NULL]]
  /\ last = Call("none", "none", "none", None, 0)

\* a fresh (empty) target database, a backend selector, a schema file or none
BootInit ==
  /\ DbIdle
  /\ environ = NoEnv
  /\ calls = [t \in Threads |-> Idle]
  /\ POSTGRES_AVAILABLE \in BOOLEAN
  /\ DB_TYPE \in DatabaseType
  /\ schema_file \in [exists : {TRUE}, sql : SchemaFiles] \cup {[exists |-> FALSE, sql |-> << >>]}
  /\ tables = {}
  /\ pc = [p \in Procs |-> "idle"]
  /\ stmt = [p \in Procs |-> 0]
  /\ made = [p \in Procs |-> {}]
  /\ success = [p \in Procs |-> FALSE]
  /\ exit_code = [p \in Procs |-> -1]
  /\ outcome = [p \in Procs |-> "none"]
  /\ table_count = [p \in Procs |-> 0]
  /\ runs = [p \in Procs |-> 0]
  /\ boot_conn = [p \in Procs |-> NoConn]

Init == DbInit /\ BootIdle /\ environ = NoEnv /\ calls = [t \in Threads |-> Idle]

Next ==
  \/ \E u \in DbUrls, a \in BOOLEAN : init_database(u, a)
  \/ \E t \in Threads : get_thread_connection(t)
  \/ \E t \in Threads : close_thread_connection(t)
  \/ \E t \in Threads, tid \in TargetIds, dc \in DomainCategories :
       \E f \in 0..(Len(dc) + 1) : persist_domain_categories(t, tid, dc, f)

\* the connection manager and the write helper of db.py
Spec == Init /\ [][Next]_vars

BootNext ==
  \/ \E p \in Procs : sqlite_check(p)
  \/ \E p \in Procs : sqlite_read_schema(p)
  \/ \E p \in Procs, fails \in BOOLEAN : sqlite_executescript(p, fails)
  \/ \E p \in Procs : postgresql_check(p)
  \/ \E p \in Procs, failAt \in 0..Len(schema_file.sql) : postgresql_create(p, failAt)

\* the bootstrap script of init_db.py, run by concurrent processes
BootSpec == BootInit /\ [][BootNext]_vars

\* a process is started in one of the environments; nothing has run yet
ConfInit ==
  /\ DbIdle
  /\ calls = [t \in Threads |-> Idle]
  /\ POSTGRES_AVAILABLE \in BOOLEAN
  /\ environ \in Environs
  /\ DB_TYPE \in DatabaseType
  /\ schema_file = [exists |-> FALSE, sql |-> << >>]
  /\ tables = {}
  /\ pc = [p \in Procs |-> "idle"]
  /\ stmt = [p \in Procs |-> 0]
  /\ made = [p \in Procs |-> {}]
  /\ success = [p \in Procs |-> FALSE]
  /\ exit_code = [p \in Procs |-> -1]
  /\ outcome = [p \in Procs |-> "none"]
  /\ table_count = [p \in Procs |-> 0]
  /\ runs = [p \in Procs |-> 0]
  /\ boot_conn = [p \in Procs |-> NoConn]

ConfNext ==
  \/ \E a \in BOOLEAN : init_database(NoUrl, a)
  \/ \E t \in Threads : get_thread_connection(t)
  \/ \E p \in Procs : sqlite_check(p)
  \/ \E p \in Procs : postgresql_check(p)

\* both programs resolve their configuration from the environment and connect
ConfSpec == ConfInit /\ [][ConfNext]_vars

\* init_database() has returned for one of the two backends, with the driver
\* it needs; no thread has a connection yet
ThreadInit ==
  /\ BootIdle
  /\ environ = NoEnv
  /\ calls = [t \in Threads |-> Idle]
  /\ POSTGRES_AVAILABLE = TRUE
  /\ _db_initialized = TRUE
  /\ \/ /\ _db_type = SQLITE
        /\ _connection_params = [database |-> Remove(SqliteUrl, "sqlite:///")]
     \/ /\ _db_type = POSTGRESQL
        /\ _connection_params = ParsePgParams(PgUrl)
  /\ _thread_local = [t \in Threads |-> None]
  /\ conns = << >>
  /\ batch_analysis = [k \in DatabaseType |-> [r \in ExistingRows |-> NULL]]
  /\ last = Call("main", "init_database", "ok", None, 0)

ThreadNext ==
  \/ \E t \in Threads : get_thread_connection(t)
  \/ \E t \in Threads : close_thread_connection(t)
  \/ \E t \in Threads, tid \in TargetIds, dc \in DomainCategories : persist_begin(t, tid, dc)
  \/ \E t \in Threads, fails \in BOOLEAN : persist_execute(t, fails)
  \/ \E t \in Threads, fails \in BOOLEAN : persist_commit(t, fails)
  \/ \E t \in Threads : persist_except(t)
  \/ \E t \in Threads : persist_finally(t)

\* the threads of an initialized process, their calls interleaved statement
\* by statement
ThreadSpec == ThreadInit /\ [][ThreadNext]_vars

\* ===================================================== db.py: claims
\* the step is a call of op by thread t
Calls(t, op) == last'.op = op /\ last'.thread = t

\* the connection thread t passes to persist_domain_categories
Supplied(t) == conns[_thread_local[t]]

\* C1: after initialization, get_thread_connection() returns to a thread the
\* handle it returned to that thread before (as long as the thread has not
\* closed it), hands two different threads two different handles, and no
\* handle is cached for more than one thread
C1_OneHandlePerThread ==
  /\ [](\A t \in Threads : _thread_local[t] # None =>
          /\ _thread_local[t] \in 1..Len(conns)
          /\ conns[_thread_local[t]].owner = t
          /\ \A u \in Threads \ {t} : _thread_local[u] # _thread_local[t])
  /\ [][\A t \in Threads :
          (Calls(t, "get_thread_connection") /\ last'.out = "ok"
             /\ get_thread_connection(t)) =>
            \* the handle returned is the one cached for t, before and after
            /\ last'.val = _thread_local'[t]
            /\ _thread_local[t] # None => last'.val = _thread_local[t]
            \* twice in a row in one thread: the same handle
            /\ (last.op = "get_thread_connection" /\ last.out = "ok" /\ last.thread = t)
                 => last'.val = last.val
            \* after a call of another thread: another handle
            /\ (last.op = "get_thread_connection" /\ last.out = "ok" /\ last.thread # t)
                 => last'.val # last.val
            /\ \A u \in Threads \ {t} : _thread_local'[u] # last'.val]_vars
  /\ [][\A t \in Threads :
          \* only the thread's own close_thread_connection changes its entry
          (_thread_local[t] # None /\ _thread_local'[t] # _thread_local[t]) =>
            close_thread_connection(t)]_vars

\* both threads hold a handle, and T1 was just handed again the handle it
\* acquired before T2 acquired its own
C1_Witness ==
  /\ last.op = "get_thread_connection" /\ last.out = "ok" /\ last.thread = "T1"
  /\ last.val = 1 /\ _thread_local["T1"] = 1 /\ _thread_local["T2"] = 2

\* C2: get_thread_connection() before initialization fails with the 'not
\* initialized' error and neither opens nor caches a connection; once
\* init_database() has completed, get_thread_connection() succeeds
C2_InitializedThenSucceeds ==
  [][\A t \in Threads :
       (Calls(t, "get_thread_connection") /\ get_thread_connection(t)) =>
         IF ~_db_initialized
         THEN /\ last'.out = "RuntimeError: Database not initialized"
              /\ UNCHANGED <<_thread_local, conns>>
         ELSE last'.out = "ok"]_vars

\* what the mapping's updates make of a table when all of them are applied
Expected(table, target_id, domain_categories) ==
  [r \in ExistingRows |->
     IF \E i \in 1..Len(domain_categories) : r = <<target_id, domain_categories[i][1]>>
     THEN LET i == CHOOSE k \in 1..Len(domain_categories) :
                     /\ r = <<target_id, domain_categories[k][1]>>
                     /\ \A j \in (k+1)..Len(domain_categories) :
                          r # <<target_id, domain_categories[j][1]>>
          IN  domain_categories[i][2]
     ELSE table[r]]

\* C3: persist_domain_categories is all-or-nothing: a call that returns has
\* committed every update of the mapping; when update k fails, nothing the
\* call issued (updates 1..k-1) is in the database afterwards, no transaction
\* is left open, and the error of the update is re-raised
C3_AllOrNothing ==
  \* whatever the call was given and however it ended
  /\ [][\A t \in Threads :
          Calls(t, "persist_domain_categories") =>
            LET kind == Supplied(t).kind
                other == CHOOSE k \in DatabaseType : k # kind
            IN  /\ batch_analysis'[other] = batch_analysis[other]
                /\ conns'[_thread_local[t]].pending = NoPending
                /\ last'.out # "ok" => batch_analysis' = batch_analysis]_vars
  \* a call that returned
  /\ [][\A t \in Threads, tid \in TargetIds, dc \in DomainCategories :
          \A f \in 0..(Len(dc) + 1) :
            (Calls(t, "persist_domain_categories") /\ last'.out = "ok"
               /\ persist_domain_categories(t, tid, dc, f)) =>
              /\ f = 0
              /\ last'.n = Len(dc)
              /\ batch_analysis'[Supplied(t).kind] =
                   Expected(batch_analysis[Supplied(t).kind], tid, dc)]_vars
  \* a call whose update f failed
  /\ [][\A t \in Threads, tid \in TargetIds, dc \in DomainCategories :
          \A f \in 1..Len(dc) :
            (Calls(t, "persist_domain_categories")
               /\ Supplied(t).kind = _db_type /\ get_cursor(Supplied(t)) = "ok"
               /\ persist_domain_categories(t, tid, dc, f)) =>
              /\ last'.out = "raised"
              /\ last'.n = f - 1
              /\ batch_analysis' = batch_analysis]_vars

\* a call failed at its second update after the first had been executed, on
\* a database whose rows an earlier call had written
C3_Witness ==
  /\ last.op = "persist_domain_categories" /\ last.out = "raised" /\ last.n = 1
  /\ batch_analysis[conns[last.val].kind][<<"target-1", "example.com">>] = "blog"
  /\ batch_analysis[conns[last.val].kind][<<"target-1", "foo.com">>] = NULL

\* C8: on every exit path of persist_domain_categories (commit, rollback and
\* re-raise, an error raised by the rollback itself) the supplied connection
\* is closed when the recorded backend is SQLite, and is left as it was (open
\* if it was open) when the recorded backend is PostgreSQL
C8_ClosedOnlyForSqlite ==
  [][\A t \in Threads :
       (Calls(t, "persist_domain_categories")
          /\ \E tid \in TargetIds, dc \in DomainCategories :
               \E f \in 0..(Len(dc) + 1) : persist_domain_categories(t, tid, dc, f)) =>
         /\ _db_type = SQLITE => ~conns'[_thread_local[t]].open
         /\ _db_type = POSTGRESQL => conns'[_thread_local[t]].open = Supplied(t).open
         /\ \A h \in 1..Len(conns) : h # _thread_local[t] => conns'[h] = conns[h]]_vars

\* a call on an SQLite connection rolled back after one update and re-raised:
\* the connection is closed
C8_Witness ==
  /\ last.op = "persist_domain_categories" /\ last.out = "raised" /\ last.n = 1
  /\ _db_type = SQLITE
  /\ conns[last.val].kind = SQLITE /\ ~conns[last.val].open

\* C9: close_thread_connection() closes the calling thread's cached connection
\* and clears the thread's entry, so that the thread's next
\* get_thread_connection() makes a new handle; without a cached connection it
\* changes nothing and raises nothing
C9_CloseClears ==
  /\ [][\A t \in Threads :
          (Calls(t, "close_thread_connection") /\ close_thread_connection(t)) =>
            /\ last'.out = "ok"
            /\ _thread_local'[t] = None
            /\ \A u \in Threads \ {t} : _thread_local'[u] = _thread_local[u]
            /\ UNCHANGED <<_db_initialized, _db_type, _connection_params, batch_analysis>>
            /\ IF _thread_local[t] # None
               THEN /\ ~conns'[_thread_local[t]].open
                    /\ \A h \in 1..Len(conns) : h # _thread_local[t] => conns'[h] = conns[h]
               ELSE UNCHANGED <<_thread_local, conns>>]_vars
  /\ [][\A t \in Threads :
          (Calls(t, "get_thread_connection") /\ last'.out = "ok"
             /\ get_thread_connection(t) /\ _thread_local[t] = None) =>
            /\ last'.val \notin 1..Len(conns)
            /\ last'.val \in 1..Len(conns')
            /\ conns'[last'.val].open
            /\ conns'[last'.val].owner = t
            /\ _thread_local'[t] = last'.val]_vars

\* a thread acquired handle 1, closed it, and was handed the new handle 2
C9_Witness ==
  /\ last.op = "get_thread_connection" /\ last.out = "ok" /\ last.val = 2
  /\ Len(conns) = 2
  /\ conns[1].owner = last.thread /\ ~conns[1].open
  /\ conns[2].owner = last.thread /\ conns[2].open
  /\ _thread_local[last.thread] = 2

\* C10: a thread that has acquired a connection and has not called
\* close_thread_connection holds an open handle: the handle cached for the
\* thread, and returned by get_thread_connection, is never a closed connection
C10_CachedHandleIsOpen ==
  /\ \A t \in Threads : _thread_local[t] # None => conns[_thread_local[t]].open
  /\ (last.op = "get_thread_connection" /\ last.out = "ok") => conns[last.val].open

\* whether a row fetched from a cursor of get_cursor(conn) can be indexed by
\* column name: RealDictCursor (db.py:136), or the connection's sqlite3.Row
\* row factory (db.py:125)
RowByName(conn) == _db_type = POSTGRESQL \/ conn.row_factory = "sqlite3.Row"

\* thread t reads a row back: conn = get_thread_connection(),
\* cur = get_cursor(conn), a SELECT of the row, row["domain_category"]; the
\* value read, or the exception raised on the way
ReadBack(t, target_id, domain) ==
  IF ~_db_initialized THEN "RuntimeError: Database not initialized"
  ELSE IF getattr_conn(t) = None THEN "a new connection"
  ELSE LET conn == conns[getattr_conn(t)]
           r == <<target_id, domain>>
       IN  IF get_cursor(conn) # "ok" THEN get_cursor(conn)
           ELSE IF ~RowByName(conn) THEN "TypeError"
           ELSE IF conn.pending[r] # Untouched THEN conn.pending[r]
           ELSE batch_analysis[conn.kind][r]

\* C11: round trip, for both backends: after persist_domain_categories has
\* written a category for an existing (target_id, domain) row through the
\* thread's connection and returned, the same thread reading the row back
\* through get_thread_connection() and get_cursor() gets the category written,
\* by column name
C11_RoundTrip ==
  [][\A t \in Threads, tid \in TargetIds, dc \in DomainCategories :
       (Calls(t, "persist_domain_categories") /\ last'.out = "ok"
          /\ persist_domain_categories(t, tid, dc, 0)) =>
         \A i \in 1..Len(dc) :
           <<tid, dc[i][1]>> \in ExistingRows =>
             ReadBack(t, tid, dc[i][1])' = Expected(batch_analysis[Supplied(t).kind], tid, dc)[<<tid, dc[i][1]>>]]_vars

\* the step is init_database(u, ...) reaching its migration run
RunsMigrations(u) ==
  StartsWithPostgresql(ResolvedUrl(u)) => POSTGRES_AVAILABLE

UrlLocation(url) ==
  LET rest == Tail(url)
  IN  IF \E i \in 1..Len(rest) : rest[i] = "@"
      THEN SubSeq(rest, (CHOOSE i \in 1..Len(rest) : rest[i] = "@") + 1, Len(rest))
      ELSE rest
UrlHost(url) == <<UrlLocation(url)[1]>>
UrlPort(url) == ToInt(<<UrlLocation(url)[3]>>)
UrlDatabase(url) == <<UrlLocation(url)[5]>>

\* C13: configuration precedence: with a full connection URL in the
\* environment, whatever the individual host, port, database, user and
\* password variables are, init_database() resolves the URL and records the
\* host, port and database the URL names, also for a URL without a
\* user:password@ part
C13_UrlWins ==
  [][(Calls("main", "init_database") /\ DATABASE_URL # Unset
        /\ StartsWithPostgresql(DATABASE_URL) /\ POSTGRES_AVAILABLE
        /\ \E a \in BOOLEAN : init_database(NoUrl, a)) =>
       /\ ResolvedUrl(NoUrl) = DATABASE_URL
       /\ _db_type' = POSTGRESQL
       /\ "host" \in DOMAIN _connection_params'
       /\ _connection_params'.host = UrlHost(DATABASE_URL)
       /\ _connection_params'.port = UrlPort(DATABASE_URL)
       /\ _connection_params'.database = UrlDatabase(DATABASE_URL)
       /\ "@" \in {DATABASE_URL[i] : i \in 1..Len(DATABASE_URL)} =>
            /\ _connection_params'.user = <<DATABASE_URL[2]>>
            /\ _connection_params'.password = <<DATABASE_URL[4]>>]_vars

\* C14: the process-wide database state is set once: once init_database() has
\* succeeded, the recorded backend and connection parameters never change,
\* and every connection cached for a thread is of the recorded backend
C14_SetOnce ==
  /\ [](\A t \in Threads :
          _thread_local[t] # None => conns[_thread_local[t]].kind = _db_type)
  /\ [][_db_initialized => UNCHANGED <<_db_initialized, _db_type, _connection_params>>]_vars

\* the step is a statement of a call made by thread t
StepOf(t) ==
  \/ get_thread_connection(t)
  \/ close_thread_connection(t)
  \/ \E tid \in TargetIds, dc \in DomainCategories : persist_begin(t, tid, dc)
  \/ \E fails \in BOOLEAN : persist_execute(t, fails)
  \/ \E fails \in BOOLEAN : persist_commit(t, fails)
  \/ persist_except(t)
  \/ persist_finally(t)

\* C16: thread independence: under any interleaving of the statements of
\* get_thread_connection, close_thread_connection and persist_domain_categories,
\* a thread's cached entry, the open/closed status of the connections it
\* made and their uncommitted transactions change only by that thread's own
\* statements
C16_ThreadIndependence ==
  [][\A u \in Threads :
       (\/ _thread_local'[u] # _thread_local[u]
        \/ calls'[u] # calls[u]
        \/ \E h \in 1..Len(conns) : conns[h].owner = u /\ conns'[h] # conns[h]
        \/ \E h \in (Len(conns) + 1)..Len(conns') : conns'[h].owner = u)
         => StepOf(u)]_vars

\* T2 closed its connection while T1 was inside persist_domain_categories with
\* one update executed and not committed: T1's transaction and open
\* connection are as they were
C16_Witness ==
  /\ last.op = "close_thread_connection" /\ last.thread = "T2"
  /\ calls["T1"].pc = "loop" /\ calls["T1"].i = 1
  /\ conns[_thread_local["T1"]].open
  /\ conns[_thread_local["T1"]].pending[<<"target-1", "example.com">>] = "news"
  /\ \E h \in 1..Len(conns) : conns[h].owner = "T2" /\ ~conns[h].open

\* C17: for the SQLite backend, every connection get_thread_connection()
\* creates, the first of a thread and every one created after the thread
\* closed its connection, has foreign-key enforcement on when it is cached and
\* returned, and keeps it on
C17_ForeignKeysOn ==
  /\ \A h \in 1..Len(conns) : conns[h].kind = SQLITE => conns[h].foreign_keys
  /\ (last.op = "get_thread_connection" /\ last.out = "ok" /\ _db_type = SQLITE
        /\ conns[last.val].open) =>
       /\ conns[last.val].foreign_keys
       /\ _thread_local[last.thread] = last.val

\* a thread closed its first SQLite connection and was handed a second one:
\* both were made with enforcement on
C17_Witness ==
  /\ last.op = "get_thread_connection" /\ last.out = "ok" /\ last.val = 2
  /\ _db_type = SQLITE
  /\ conns[1].kind = SQLITE /\ conns[1].owner = last.thread /\ ~conns[1].open
  /\ conns[2].kind = SQLITE /\ conns[2].owner = last.thread /\ conns[2].open
  /\ conns[2].foreign_keys

\* C18: an init_database() that fails with 'PostgreSQL support not
\* available' leaves the initialized flag, the recorded backend and the
\* connection parameters as they were, so that a get_thread_connection() of
\* a process initialized before the failed call still succeeds
C18_FailedInitLeavesState ==
  /\ [][(Calls("main", "init_database")
           /\ last'.out = "RuntimeError: PostgreSQL support not available") =>
          UNCHANGED <<_db_initialized, _db_type, _connection_params>>]_vars
  /\ [][\A t \in Threads :
          (Calls(t, "get_thread_connection") /\ _db_initialized
             /\ last.op = "init_database"
             /\ last.out = "RuntimeError: PostgreSQL support not available"
             /\ get_thread_connection(t)) =>
            last'.out = "ok"]_vars

\* ================================================== init_db.py: claims
\* the step starts a run of process p: it asks the catalog for the sentinel
Checks(p) == sqlite_check(p) \/ postgresql_check(p)

\* the step is the run of process p looking for the schema file
ReadsSchema(p) ==
  \/ sqlite_read_schema(p)
  \/ \E failAt \in 0..Len(schema_file.sql) : postgresql_create(p, failAt)

\* C4: two runs of the bootstrapper in sequence against a fresh target are
\* idempotent, for both backends: a run that creates the schema creates N > 0
\* tables, among them the sentinel, and returns success; a run that finds the
\* sentinel executes no statement, changes no table and returns success, so
\* that after a process's second run the table count is the one its first
\* run reported
C4_SecondRunIsNoOp ==
  /\ [](\A p \in Procs :
          /\ (pc[p] = "done" /\ outcome[p] = "created") =>
               /\ success[p] /\ exit_code[p] = 0
               /\ Cardinality(made[p]) > 0 /\ made[p] \subseteq tables
               /\ SENTINEL \in tables
               /\ table_count[p] = Cardinality(tables) /\ table_count[p] > 0
          /\ (pc[p] = "done" /\ outcome[p] = "exists") =>
               /\ success[p] /\ exit_code[p] = 0
               /\ made[p] = {}
               /\ table_count[p] > 0 => Cardinality(tables) = table_count[p])
  /\ [][\A p \in Procs :
          (Checks(p) /\ SENTINEL \in tables /\ (DB_TYPE = POSTGRESQL => POSTGRES_AVAILABLE)) =>
            /\ pc'[p] = "done" /\ outcome'[p] = "exists"
            /\ success'[p] /\ exit_code'[p] = 0
            /\ tables' = tables]_vars

\* a process ran twice: its first run created both tables, its second run
\* found the sentinel and left the two tables as they were
C4_Witness ==
  \E p \in Procs :
    /\ runs[p] = 2 /\ pc[p] = "done" /\ outcome[p] = "exists"
    /\ table_count[p] = 2 /\ Cardinality(tables) = 2

\* C5: when two bootstrap processes interleave check and create on one empty
\* database, at most one creates the schema, and the one whose creation fails
\* with a duplicate-object error does not end with the failure signal or a
\* non-zero exit code
C5_DuplicateIsRecoverable ==
  /\ \A p, q \in Procs : (outcome[p] = "created" /\ outcome[q] = "created") => p = q
  /\ \A p \in Procs :
       (pc[p] = "done" /\ outcome[p] = "duplicate object") =>
         success[p] /\ exit_code[p] = 0

\* C6: when a statement of the schema script fails, the bootstrapper returns
\* the failure signal and the database is as it was before the run: no table
\* created by the earlier statements of the script remains
C6_FailedScriptLeavesNoTable ==
  \A p \in Procs :
    (pc[p] = "done" /\ outcome[p] \in {"execution error", "duplicate object"}) =>
      /\ ~success[p]
      /\ made[p] \cap tables = {}

\* C7: a run that finds neither the sentinel table nor the schema file returns
\* the failure signal, leaves the sentinel absent and exits non-zero; a run
\* that returns success exits 0
C7_MissingSchemaFile ==
  /\ [][\A p \in Procs :
          (pc[p] = "absent" /\ ~schema_file.exists /\ ReadsSchema(p)) =>
            /\ pc'[p] = "done" /\ outcome'[p] = "no schema file"
            /\ ~success'[p]
            /\ exit_code'[p] # 0
            /\ tables' = tables
            /\ SENTINEL \notin tables']_vars
  /\ [](\A p \in Procs :
          pc[p] = "done" =>
            /\ success[p] => exit_code[p] = 0
            /\ ~success[p] => exit_code[p] # 0
            /\ success[p] <=> outcome[p] \in {"created", "exists"})

\* a run ended for want of the schema file: failure, exit code 1, no sentinel
C7_Witness ==
  \E p \in Procs :
    /\ pc[p] = "done" /\ outcome[p] = "no schema file"
    /\ ~success[p] /\ exit_code[p] = 1
    /\ SENTINEL \notin tables

\* whether what a bootstrapper run connected to is the backend and database
\* recorded by db.py's init_database()
SameTarget(b, type, params) ==
  /\ b.kind = type
  /\ type = SQLITE =>
       /\ "database" \in DOMAIN params
       /\ b.database = params.database
  /\ type = POSTGRESQL =>
       /\ "host" \in DOMAIN params
       /\ b.host = params.host /\ ToInt(b.port) = params.port
       /\ b.database = params.database
       /\ b.user = params.user /\ b.password = params.password

\* C15: in every environment (a full URL, a backend selector, a file path, or
\* none of them) the bootstrapper connects to the backend and database that
\* db.py's init_database() resolves from the same environment
C15_SameDescriptor ==
  \A p \in Procs :
    (boot_conn[p] # NoConn /\ _db_initialized) =>
      SameTarget(boot_conn[p], _db_type, _connection_params)

\* the tables the schema file defines
SchemaTables ==
  {TableOf(schema_file.sql[i]) : i \in 1..Len(schema_file.sql)} \ {"None"}

\* C19: whenever a run of the bootstrapper returns the success signal, every
\* table the schema file defines exists in the target database, not only the
\* sentinel
C19_SuccessMeansCompleteSchema ==
  \A p \in Procs :
    (pc[p] = "done" /\ success[p]) => SchemaTables \subseteq tables

====
